---------------------------- MODULE Spec2Model ----------------------------
(***************************************************************************)
(* Model of the idle-instance auto-shutdown handler (lambda_function.py).  *)
(*                                                                         *)
(* One invocation of lambda_handler is a sequence of steps, one step per   *)
(* call to an external service (EC2 describe/stop, SSM command, DynamoDB   *)
(* get/put); the local computation that follows a call belongs to the same *)
(* step.  Every external call may also raise, which ends the invocation.   *)
(* Environment variables are text and are parsed as get_config parses them;*)
(* the SSM command output is text and is counted as check_ssh_connections  *)
(* counts it.                                                              *)
(***************************************************************************)
EXTENDS Integers, Sequences, FiniteSets, TLC

VARIABLES
    env,      \* os.environ: the four variables get_config reads
    table,    \* the DynamoDB state table: InstanceId -> IdleCount
    pc,       \* per invocation slot: the call lambda_handler is about to make
    frame,    \* per invocation slot: lambda_handler's local variables
    result,   \* per invocation slot: what the last invocation returned or raised
    trace,    \* per invocation slot: the external effects of the invocation
    idleRun   \* consecutive error-free invocations that observed idleness

vars == <<env, table, pc, frame, result, trace, idleRun>>

---------------------------------------------------------------------------
(* Bounds of the model. *)

Max(a, b) == IF a >= b THEN a ELSE b
Min(a, b) == IF a <= b THEN a ELSE b

\* Largest IDLE_THRESHOLD value the environment is given.
MaxThreshold == 3

\* Largest IdleCount a record left in the table by an earlier deployment holds.
MaxStored == 3

\* Longest StandardOutputContent, in characters.
MaxOutputLen == 3

\* The default of IDLE_THRESHOLD.
DefaultIdleThreshold == 3

\* Invocation slots.  The scheduler's non-overlapping invocations use slot 1.
Procs == {1, 2}
SeqProcs == {1}

\* consecutive idle observations are counted up to here
IdleRunCap == Max(MaxThreshold, DefaultIdleThreshold) + 1


---------------------------------------------------------------------------
(* Text.  A text is a sequence of one-character strings. *)

UpperChars == <<"A","B","C","D","E","F","G","H","I","J","K","L","M",
                "N","O","P","Q","R","S","T","U","V","W","X","Y","Z">>
LowerChars == <<"a","b","c","d","e","f","g","h","i","j","k","l","m",
                "n","o","p","q","r","s","t","u","v","w","x","y","z">>
DigitChars == <<"0","1","2","3","4","5","6","7","8","9">>

IsSpace(ch) == ch \in {" ", "\t", "\n"}

\* str.lower, one character
LowerChar(ch) ==
    IF \E i \in 1..26 : UpperChars[i] = ch
    THEN LowerChars[CHOOSE i \in 1..26 : UpperChars[i] = ch]
    ELSE ch

\* str.lower
Lower(s) == [i \in 1..Len(s) |-> LowerChar(s[i])]

RECURSIVE LStrip(_)
LStrip(s) == IF s # <<>> /\ IsSpace(Head(s)) THEN LStrip(Tail(s)) ELSE s

RECURSIVE RStrip(_)
RStrip(s) ==
    IF s # <<>> /\ IsSpace(s[Len(s)]) THEN RStrip(SubSeq(s, 1, Len(s) - 1)) ELSE s

\* str.strip
Strip(s) == RStrip(LStrip(s))

IsDigit(ch) == \E i \in 1..10 : DigitChars[i] = ch
DigitValue(ch) == (CHOOSE i \in 1..10 : DigitChars[i] = ch) - 1

RECURSIVE DigitsValue(_)
DigitsValue(ds) ==
    IF ds = <<>> THEN 0
    ELSE 10 * DigitsValue(SubSeq(ds, 1, Len(ds) - 1)) + DigitValue(ds[Len(ds)])

\* The digits of int's argument once surrounding whitespace and a sign are removed.
Unsigned(s) ==
    LET t == Strip(s)
    IN  IF t # <<>> /\ Head(t) \in {"-", "+"} THEN Tail(t) ELSE t

\* int(s) does not raise ValueError
IsIntText(s) ==
    /\ Unsigned(s) # <<>>
    /\ \A i \in 1..Len(Unsigned(s)) : IsDigit(Unsigned(s)[i])

\* int(s)
ParseInt(s) ==
    LET t == Strip(s)
    IN  IF Head(t) = "-" THEN 0 - DigitsValue(Unsigned(s)) ELSE DigitsValue(Unsigned(s))

RECURSIVE NatText(_)
NatText(n) ==
    IF n < 10 THEN <<DigitChars[n + 1]>>
    ELSE NatText(n \div 10) \o <<DigitChars[(n % 10) + 1]>>

\* The decimal text of an integer, as an operator writes it into the environment.
IntText(n) == IF n < 0 THEN <<"-">> \o NatText(0 - n) ELSE NatText(n)

---------------------------------------------------------------------------
(* get_config *)

EnvNames == {"INSTANCE_ID", "IDLE_THRESHOLD", "STATE_TABLE", "ALLOW_STOP"}

InstanceIds == {"i-1"}
TableNames == {"autoshutdown-state"}

\* IDLE_THRESHOLD as deployed: an integer's text, or text that is no integer
ThresholdTexts == {IntText(n) : n \in (0 - 1)..MaxThreshold} \cup {<<"x">>}

\* ALLOW_STOP as deployed
AllowStopTexts == {<<" ", "O", "n">>, <<"t", "r", "u", "e">>, <<"n", "o">>}

TruthyTexts == {<<"1">>, <<"t", "r", "u", "e">>, <<"y", "e", "s">>, <<"o", "n">>}

\* dict.get(name, default), of os.environ and of a response
DictGet(e, name, default) == IF name \in DOMAIN e THEN e[name] ELSE default

ThresholdText(e) == DictGet(e, "IDLE_THRESHOLD", IntText(DefaultIdleThreshold))

\* The exception get_config raises on environment e, "none" when it returns.
\* The dict display evaluates its values in order.
ConfigRaises(e) ==
    IF "INSTANCE_ID" \notin DOMAIN e THEN "KeyError"
    ELSE IF ~IsIntText(ThresholdText(e)) THEN "ValueError"
    ELSE IF "STATE_TABLE" \notin DOMAIN e THEN "KeyError"
    ELSE "none"

AllowStop(text) == Lower(Strip(text)) \in TruthyTexts

get_config(e) ==
    [instance_id    |-> e["INSTANCE_ID"],
     idle_threshold |-> ParseInt(ThresholdText(e)),
     state_table    |-> e["STATE_TABLE"],
     allow_stop     |-> AllowStop(DictGet(e, "ALLOW_STOP", <<"f", "a", "l", "s", "e">>))]

\* Every environment a deployment can have: each variable set or not.
Envs ==
    LET full == [INSTANCE_ID : InstanceIds, IDLE_THRESHOLD : ThresholdTexts,
                 STATE_TABLE : TableNames, ALLOW_STOP : AllowStopTexts]
    IN  {[n \in D |-> f[n]] : f \in full, D \in SUBSET EnvNames}

---------------------------------------------------------------------------
(* check_ssh_connections: counting the command output *)

\* "c" stands for any character of a connection's line
OutputChars == {"c", " ", "\n"}

Outputs == UNION {[1..n -> OutputChars] : n \in 0..MaxOutputLen}

\* What get_command_invocation reports of the command after the fixed wait.
CommandStatuses == {"Success", "InProgress", "Failed", "TimedOut"}

RECURSIVE SplitLines(_)
\* str.splitlines
SplitLines(s) ==
    IF s = <<>> THEN <<>>
    ELSE IF \E i \in 1..Len(s) : s[i] = "\n"
         THEN LET i == CHOOSE i \in 1..Len(s) :
                           s[i] = "\n" /\ \A j \in 1..(i - 1) : s[j] # "\n"
              IN  <<SubSeq(s, 1, i - 1)>> \o SplitLines(SubSeq(s, i + 1, Len(s)))
         ELSE <<s>>

\* connection_count of an invocation record; content is absent from the
\* record (the default "" applies) or a text
ConnectionCount(invocation) ==
    LET output == Strip(DictGet(invocation, "StandardOutputContent", <<>>))
    IN  IF output # <<>> THEN Len(SplitLines(output)) ELSE 0

HasConnections(connection_count) == connection_count > 0

\* The invocation records get_command_invocation can return.
Invocations ==
    {[Status |-> st, StandardOutputContent |-> out] : st \in CommandStatuses, out \in Outputs}
    \cup {[Status |-> st] : st \in CommandStatuses}

---------------------------------------------------------------------------
(* The state table *)

Item(instance_id, count) == [InstanceId |-> instance_id, IdleCount |-> count]

\* get_idle_count
get_idle_count(instance_id, state_table) ==
    IF instance_id \in DOMAIN state_table THEN state_table[instance_id].IdleCount ELSE 0

\* the table after put_item(Item=item)
PutItem(state_table, item) ==
    [k \in DOMAIN state_table \cup {item.InstanceId} |->
        IF k = item.InstanceId THEN item ELSE state_table[k]]

\* Mutant: a nonzero count is not put but added to the item in place, so no
\* increment is lost and a reset is not overwritten.
add_to_idle_count(instance_id, count, state_table) ==
    PutItem(state_table,
            Item(instance_id,
                 IF count = 0 THEN 0 ELSE get_idle_count(instance_id, state_table) + 1))

\* update_idle_count
update_idle_count(instance_id, count, state_table) ==
    PutItem(state_table, Item(instance_id, count))

\* Mutant: a count of one is left in place.
NeedsResetAboveOne(count) == count > 1

\* Mutant: the reset writes whatever the count is.
NeedsResetAlways(count) == TRUE

\* reset_idle_count writes only over a nonzero count
NeedsReset(count) == count # 0

Tables ==
    {[k \in D |-> Item(k, c[k])] : D \in SUBSET InstanceIds, c \in [InstanceIds -> 0..MaxStored]}

---------------------------------------------------------------------------
(* lambda_handler *)

\* The lifecycle states describe_instances reports.
InstanceStates ==
    {"pending", "running", "shutting-down", "terminated", "stopping", "stopped"}

\* Mutant: a pending instance is taken for a running one.
NotRunningOrPending(state) == state \notin {"running", "pending"}

\* state != "running"
NotRunning(state) == state # "running"

\* Mutant: the observation is not counted.
NotIncremented(count) == count

\* idle_count = get_idle_count(...) + 1
Incremented(count) == count + 1

\* Mutant: the comparison is off by one.
AtOrBelowThreshold(idle_count, idle_threshold) == idle_count <= idle_threshold

\* idle_count < idle_threshold
BelowThreshold(idle_count, idle_threshold) == idle_count < idle_threshold

\* Mutant: the flag is read the wrong way round.
SuppressedInverted(allow_stop) == allow_stop

\* not allow_stop
Suppressed(allow_stop) == ~allow_stop

NoFrame ==
    [instance_id |-> "none", idle_threshold |-> 0, allow_stop |-> FALSE,
     state |-> "none", has_connections |-> FALSE, connection_count |-> 0,
     idle_count |-> 0, site |-> "none"]

\* The locals once get_config has returned.
NewFrame(config) ==
    [NoFrame EXCEPT !.instance_id = config.instance_id,
                    !.idle_threshold = config.idle_threshold,
                    !.allow_stop = config.allow_stop]

\* What an invocation did to the services, and what they did to it: the table
\* when it began, the counts it put, its stop_instance calls, the status of
\* its remote command when read, the call that raised, whether the
\* invocation before it ended in a failed stop, whether the invocation
\* before it returned 'skipped-<state>' or 'active', and how many invocations
\* have begun in its slot since the last one that called stop_instance.
NoTrace == [table0 |-> <<>>, puts |-> <<>>, stops |-> 0, cmd_status |-> "none",
            failed |-> "none", retrying |-> FALSE, after_reset |-> FALSE,
            since_stop |-> 0]

NoResult == [status |-> "none"]

\* The exception that left lambda_handler, with the call that raised it.
Raised(exception, call) == [raised |-> exception, call |-> call]

IsError(r) == "raised" \in DOMAIN r

\* The invocation observed the instance running without connections.
ObservedIdle(f) == f.state = "running" /\ ~f.has_connections

\* The record lambda_handler returns after the reset_idle_count call at f.site.
ResetResult(f) ==
    CASE f.site = "skipped"    -> [status |-> "skipped-" \o f.state]
      [] f.site = "active"     -> [status |-> "active",
                                   connection_count |-> f.connection_count]
      [] f.site = "suppressed" -> [status |-> "stop-suppressed",
                                   idle_count |-> f.idle_count]
      [] f.site = "stopped"    -> [status |-> "stopped", idle_count |-> f.idle_count]

\* lambda_handler returns r.
Return(p, r) ==
    /\ pc' = [pc EXCEPT ![p] = "done"]
    /\ result' = [result EXCEPT ![p] = r]
    /\ idleRun' = IF ObservedIdle(frame[p]) THEN Min(idleRun + 1, IdleRunCap) ELSE 0

\* An exception of an external call leaves lambda_handler.
Raise(p, call) ==
    /\ pc' = [pc EXCEPT ![p] = "done"]
    /\ result' = [result EXCEPT ![p] = Raised("ClientError", call)]
    /\ trace' = [trace EXCEPT ![p].failed = call]
    /\ UNCHANGED idleRun

\* lambda_handler begins with get_config reading environment e.
Begin(p, e) ==
    /\ pc[p] \in {"idle", "done"}
    /\ trace' = [trace EXCEPT ![p] =
                    [NoTrace EXCEPT !.table0 = table,
                                    !.retrying =
                                        (result[p] = Raised("ClientError", "stop_instances")),
                                    !.after_reset =
                                        (/\ pc[p] = "done"
                                         /\ ~IsError(result[p])
                                         /\ frame[p].site \in {"skipped", "active"}),
                                    !.since_stop =
                                        IF trace[p].stops > 0 THEN 1
                                        ELSE Min(trace[p].since_stop + 1, IdleRunCap)]]
    /\ IF ConfigRaises(e) # "none"
       THEN /\ pc' = [pc EXCEPT ![p] = "done"]
            /\ result' = [result EXCEPT ![p] = Raised(ConfigRaises(e), "get_config")]
            /\ frame' = [frame EXCEPT ![p] = NoFrame]
       ELSE /\ pc' = [pc EXCEPT ![p] = "get_instance_state"]
            /\ result' = [result EXCEPT ![p] = NoResult]
            /\ frame' = [frame EXCEPT ![p] = NewFrame(get_config(e))]
    /\ UNCHANGED <<env, table, idleRun>>

\* Mutant: STATE_TABLE is read with a default, so its absence raises nothing.
InvokeWithTableDefault(p) ==
    Begin(p, [n \in DOMAIN env \cup {"STATE_TABLE"} |->
                 IF n \in DOMAIN env THEN env[n] ELSE "autoshutdown-state"])

\* The scheduler invokes lambda_handler on the deployment's environment.
Invoke(p) == Begin(p, env)

\* state = get_instance_state(instance_id), and the test of state.
GetInstanceState(p) ==
    /\ pc[p] = "get_instance_state"
    /\ \E state \in InstanceStates :
          /\ frame' = [frame EXCEPT ![p].state = state,
                                    ![p].site = IF NotRunning(state) THEN "skipped"
                                                ELSE "none"]
          /\ pc' = [pc EXCEPT ![p] = IF NotRunning(state) THEN "reset_get"
                                     ELSE "check_ssh_connections"]
    /\ UNCHANGED <<env, table, result, trace, idleRun>>

\* describe_instances raises, or its response holds no instance.
GetInstanceStateRaises(p) ==
    /\ pc[p] = "get_instance_state"
    /\ Raise(p, "describe_instances")
    /\ UNCHANGED <<env, table, frame>>

\* has_connections, connection_count = check_ssh_connections(instance_id):
\* the command is sent, and after the wait its invocation record is read,
\* whatever the command's status is by then.
CheckSshConnections(p) ==
    /\ pc[p] = "check_ssh_connections"
    /\ \E invocation \in Invocations :
          LET connection_count == ConnectionCount(invocation)
              has_connections == HasConnections(connection_count)
          IN  /\ frame' = [frame EXCEPT ![p].connection_count = connection_count,
                                        ![p].has_connections = has_connections,
                                        ![p].site = IF has_connections THEN "active"
                                                    ELSE "none"]
              /\ trace' = [trace EXCEPT ![p].cmd_status = invocation.Status]
              /\ pc' = [pc EXCEPT ![p] = IF has_connections THEN "reset_get"
                                         ELSE "get_idle_count"]
    /\ UNCHANGED <<env, table, result, idleRun>>

\* Mutant: the exception is swallowed and the probe reports no connections.
CheckSshConnectionsSwallows(p) ==
    /\ pc[p] = "check_ssh_connections"
    /\ trace' = [trace EXCEPT ![p].failed = "send_command"]
    /\ pc' = [pc EXCEPT ![p] = "get_idle_count"]
    /\ UNCHANGED <<env, table, frame, result, idleRun>>

\* send_command or get_command_invocation raises.
CheckSshConnectionsRaises(p) ==
    /\ pc[p] = "check_ssh_connections"
    /\ Raise(p, "send_command")
    /\ UNCHANGED <<env, table, frame>>

\* Mutant: at the threshold with allow_stop the reset runs and stop_instance
\* is not called before it.
GetIdleCountResetsFirst(p) ==
    /\ pc[p] = "get_idle_count"
    /\ LET f == frame[p]
           idle_count == Incremented(get_idle_count(f.instance_id, table))
       IN  /\ frame' = [frame EXCEPT
                 ![p].idle_count = idle_count,
                 ![p].site = IF BelowThreshold(idle_count, f.idle_threshold) THEN "none"
                             ELSE IF Suppressed(f.allow_stop) THEN "suppressed"
                             ELSE "stopped"]
           /\ pc' = [pc EXCEPT ![p] =
                 IF BelowThreshold(idle_count, f.idle_threshold) THEN "update_idle_count"
                 ELSE "reset_get"]
    /\ UNCHANGED <<env, table, result, trace, idleRun>>

\* idle_count = get_idle_count(instance_id, state_table) + 1, and the tests of
\* idle_count and allow_stop.
GetIdleCount(p) ==
    /\ pc[p] = "get_idle_count"
    /\ LET f == frame[p]
           idle_count == Incremented(get_idle_count(f.instance_id, table))
       IN  /\ frame' = [frame EXCEPT
                 ![p].idle_count = idle_count,
                 ![p].site = IF BelowThreshold(idle_count, f.idle_threshold) THEN "none"
                             ELSE IF Suppressed(f.allow_stop) THEN "suppressed"
                             ELSE "stopped"]
           /\ pc' = [pc EXCEPT ![p] =
                 IF BelowThreshold(idle_count, f.idle_threshold) THEN "update_idle_count"
                 ELSE IF Suppressed(f.allow_stop) THEN "reset_get"
                 ELSE "stop_instance"]
    /\ UNCHANGED <<env, table, result, trace, idleRun>>

GetIdleCountRaises(p) ==
    /\ pc[p] = "get_idle_count"
    /\ Raise(p, "get_item")
    /\ UNCHANGED <<env, table, frame>>

\* Mutant: the return after update_idle_count is missing, so the handler
\* goes on to the threshold branches.
UpdateIdleCountFallsThrough(p) ==
    /\ pc[p] = "update_idle_count"
    /\ table' = update_idle_count(frame[p].instance_id, frame[p].idle_count, table)
    /\ trace' = [trace EXCEPT ![p].puts = Append(@, frame[p].idle_count)]
    /\ frame' = [frame EXCEPT ![p].site = IF Suppressed(frame[p].allow_stop)
                                          THEN "suppressed" ELSE "stopped"]
    /\ pc' = [pc EXCEPT ![p] = IF Suppressed(frame[p].allow_stop) THEN "reset_get"
                               ELSE "stop_instance"]
    /\ UNCHANGED <<env, result, idleRun>>

\* update_idle_count(instance_id, idle_count, state_table), and the return.
UpdateIdleCount(p) ==
    /\ pc[p] = "update_idle_count"
    /\ table' = update_idle_count(frame[p].instance_id, frame[p].idle_count, table)
    /\ trace' = [trace EXCEPT ![p].puts = Append(@, frame[p].idle_count)]
    /\ Return(p, [status |-> "idle-but-not-stopping", idle_count |-> frame[p].idle_count])
    /\ UNCHANGED <<env, frame>>

UpdateIdleCountRaises(p) ==
    /\ pc[p] = "update_idle_count"
    /\ Raise(p, "put_item")
    /\ UNCHANGED <<env, table, frame>>

\* stop_instance(instance_id) returns.
StopInstance(p) ==
    /\ pc[p] = "stop_instance"
    /\ trace' = [trace EXCEPT ![p].stops = @ + 1]
    /\ pc' = [pc EXCEPT ![p] = "reset_get"]
    /\ UNCHANGED <<env, table, frame, result, idleRun>>

\* Mutant: the exception of stop_instances is swallowed and the reset follows.
StopInstanceSwallows(p) ==
    /\ pc[p] = "stop_instance"
    /\ trace' = [trace EXCEPT ![p].stops = @ + 1, ![p].failed = "stop_instances"]
    /\ pc' = [pc EXCEPT ![p] = "reset_get"]
    /\ UNCHANGED <<env, table, frame, result, idleRun>>

\* stop_instances raises: the exception leaves stop_instance and lambda_handler.
StopInstanceRaises(p) ==
    /\ pc[p] = "stop_instance"
    /\ pc' = [pc EXCEPT ![p] = "done"]
    /\ result' = [result EXCEPT ![p] = Raised("ClientError", "stop_instances")]
    /\ trace' = [trace EXCEPT ![p].stops = @ + 1, ![p].failed = "stop_instances"]
    /\ UNCHANGED <<env, table, frame, idleRun>>

\* reset_idle_count: the read of the count and its test.
ResetGet(p) ==
    /\ pc[p] = "reset_get"
    /\ IF NeedsReset(get_idle_count(frame[p].instance_id, table))
       THEN /\ pc' = [pc EXCEPT ![p] = "reset_put"]
            /\ UNCHANGED <<result, idleRun>>
       ELSE Return(p, ResetResult(frame[p]))
    /\ UNCHANGED <<env, table, frame, trace>>

ResetGetRaises(p) ==
    /\ pc[p] = "reset_get"
    /\ Raise(p, "get_item")
    /\ UNCHANGED <<env, table, frame>>

\* reset_idle_count: update_idle_count(instance_id, 0, state_table), and the return.
ResetPut(p) ==
    /\ pc[p] = "reset_put"
    /\ table' = update_idle_count(frame[p].instance_id, 0, table)
    /\ trace' = [trace EXCEPT ![p].puts = Append(@, 0)]
    /\ Return(p, ResetResult(frame[p]))
    /\ UNCHANGED <<env, frame>>

ResetPutRaises(p) ==
    /\ pc[p] = "reset_put"
    /\ Raise(p, "put_item")
    /\ UNCHANGED <<env, table, frame>>

---------------------------------------------------------------------------
(* Specifications *)

\* A deployment: any environment, and a table that is new or was left by an
\* earlier deployment.
Init ==
    /\ env \in Envs
    /\ table \in Tables
    /\ pc = [p \in Procs |-> "idle"]
    /\ frame = [p \in Procs |-> NoFrame]
    /\ result = [p \in Procs |-> NoResult]
    /\ trace = [p \in Procs |-> NoTrace]
    /\ idleRun = 0

Step(p) ==
    \/ Invoke(p)
    \/ GetInstanceState(p)
    \/ GetInstanceStateRaises(p)
    \/ CheckSshConnections(p)
    \/ CheckSshConnectionsRaises(p)
    \/ GetIdleCount(p)
    \/ GetIdleCountRaises(p)
    \/ UpdateIdleCount(p)
    \/ UpdateIdleCountRaises(p)
    \/ StopInstance(p)
    \/ StopInstanceRaises(p)
    \/ ResetGet(p)
    \/ ResetGetRaises(p)
    \/ ResetPut(p)
    \/ ResetPutRaises(p)

\* Non-overlapping invocations, as the scheduler triggers them.
Next == \E p \in SeqProcs : Step(p)

Spec == Init /\ [][Next]_vars

\* A deployment whose table holds no record, or a count of 0.
InitFresh == Init /\ \A k \in DOMAIN table : table[k].IdleCount = 0

SpecFresh == InitFresh /\ [][Next]_vars

\* Overlapping invocations: nothing in the handler or the table keeps two
\* invocations for the same instance apart.  The deployment is one whose
\* configuration get_config accepts, with idle_threshold >= 1 and a stored
\* count in [0, idle_threshold).
InitConc ==
    /\ Init
    /\ ConfigRaises(env) = "none"
    /\ get_config(env).idle_threshold >= 1
    /\ \A k \in DOMAIN table : table[k].IdleCount < get_config(env).idle_threshold

\* One invocation per slot: two invocations that overlap in any way.
InvokeOverlapping(p) == pc[p] = "idle" /\ Invoke(p)

NextConc ==
    \E p \in Procs :
        \/ InvokeOverlapping(p)
        \/ GetInstanceState(p)
        \/ GetInstanceStateRaises(p)
        \/ CheckSshConnections(p)
        \/ CheckSshConnectionsRaises(p)
        \/ GetIdleCount(p)
        \/ GetIdleCountRaises(p)
        \/ UpdateIdleCount(p)
        \/ UpdateIdleCountRaises(p)
        \/ StopInstance(p)
        \/ StopInstanceRaises(p)
        \/ ResetGet(p)
        \/ ResetGetRaises(p)
        \/ ResetPut(p)
        \/ ResetPutRaises(p)

SpecConc == InitConc /\ [][NextConc]_vars

\* The scheduler keeps invoking, one invocation after the other; allow_stop
\* is true, the threshold is at least 1 and the table starts below it; the
\* instance stays running without connections and no external call raises.
InitLive ==
    /\ InitConc
    /\ get_config(env).allow_stop

\* describe_instances reports the instance running.
ObserveRunning(p) == GetInstanceState(p) /\ frame'[p].state = "running"

\* The probe reports no connection.
ObserveNoConnections(p) == CheckSshConnections(p) /\ ~frame'[p].has_connections

NextLive ==
    \E p \in SeqProcs :
        \/ Invoke(p)
        \/ ObserveRunning(p)
        \/ ObserveNoConnections(p)
        \/ GetIdleCount(p)
        \/ UpdateIdleCount(p)
        \/ StopInstance(p)
        \/ ResetGet(p)
        \/ ResetPut(p)

SpecLive == InitLive /\ [][NextLive]_vars /\ WF_vars(NextLive)

---------------------------------------------------------------------------
(* Properties *)

\* The invocation in slot p has returned a record.
Returned(p) == pc[p] = "done" /\ ~IsError(result[p])

\* The stored idle count, as get_idle_count reads it, now and when the
\* invocation in slot p began.
Stored(p) == get_idle_count(frame[p].instance_id, table)
StoredBefore(p) == get_idle_count(frame[p].instance_id, trace[p].table0)

\* C1: after every completed invocation that did not stop the instance the
\* stored idle count is in [0, idle_threshold), and after every completed
\* invocation that stopped the instance or observed a non-idle condition it
\* is 0.
C1_StoredInRange ==
    \A p \in SeqProcs :
        Returned(p) =>
            /\ trace[p].stops = 0 =>
                   (0 <= Stored(p) /\ Stored(p) < frame[p].idle_threshold)
            /\ (trace[p].stops > 0 \/ ~ObservedIdle(frame[p])) => Stored(p) = 0

\* The same for the thresholds the configuration is meant to hold: C1 fails
\* only where idle_threshold < 1.
StoredInRangeForPositiveThreshold ==
    \A p \in SeqProcs :
        (Returned(p) /\ frame[p].idle_threshold >= 1) =>
            /\ trace[p].stops = 0 =>
                   (0 <= Stored(p) /\ Stored(p) < frame[p].idle_threshold)
            /\ (trace[p].stops > 0 \/ ~ObservedIdle(frame[p])) => Stored(p) = 0

\* C2: running, no connections, stored count c with c+1 >= idle_threshold and
\* allow_stop: the invocation returns 'stopped' with idle_count = c+1, has
\* called stop_instance exactly once, and leaves the stored count at 0.
C2_StopsAtThreshold ==
    \A p \in SeqProcs :
        ( /\ Returned(p)
          /\ ObservedIdle(frame[p])
          /\ StoredBefore(p) + 1 >= frame[p].idle_threshold
          /\ frame[p].allow_stop )
        => /\ result[p] = [status |-> "stopped", idle_count |-> StoredBefore(p) + 1]
           /\ trace[p].stops = 1
           /\ Stored(p) = 0

C2_Witness ==
    \E p \in SeqProcs :
        /\ Returned(p)
        /\ result[p] = [status |-> "stopped", idle_count |-> 3]
        /\ frame[p].idle_threshold = 2
        /\ trace[p].puts = <<0>>

\* C3: with allow_stop false no invocation ever calls stop_instance; and
\* running, no connections, stored count c with c+1 >= idle_threshold returns
\* 'stop-suppressed' with idle_count = c+1 and leaves the stored count at 0.
C3_NeverStopsWhenDisallowed ==
    \A p \in SeqProcs :
        /\ ~frame[p].allow_stop => (trace[p].stops = 0 /\ pc[p] # "stop_instance")
        /\ ( /\ Returned(p)
             /\ ObservedIdle(frame[p])
             /\ StoredBefore(p) + 1 >= frame[p].idle_threshold
             /\ ~frame[p].allow_stop )
           => /\ result[p] = [status |-> "stop-suppressed",
                              idle_count |-> StoredBefore(p) + 1]
              /\ Stored(p) = 0

C3_Witness ==
    \E p \in SeqProcs :
        /\ Returned(p)
        /\ ~frame[p].allow_stop
        /\ result[p] = [status |-> "stop-suppressed", idle_count |-> 3]
        /\ frame[p].idle_threshold = 3
        /\ trace[p].puts = <<0>>

\* C4: with a table that starts empty or at 0, stop_instance is called in an
\* invocation only if that invocation and the idle_threshold - 1 error-free
\* invocations before it all observed the instance running without
\* connections (idle_threshold >= 1).
C4_StopNeedsThresholdIdleObservations ==
    \A p \in SeqProcs :
        ( /\ frame[p].idle_threshold >= 1
          /\ (pc[p] = "stop_instance" \/ trace[p].stops > 0) )
        => /\ ObservedIdle(frame[p])
           /\ idleRun + (IF Returned(p) THEN 0 ELSE 1) >= frame[p].idle_threshold

C4_Witness ==
    \E p \in SeqProcs :
        /\ pc[p] = "stop_instance"
        /\ frame[p].idle_threshold = 3
        /\ idleRun = 2

\* C5: running, no connections, stored count c with c+1 < idle_threshold: the
\* invocation returns 'idle-but-not-stopping' with idle_count = c+1, the
\* table then holds c+1, and stop_instance is not called.
C5_CountsBelowThreshold ==
    \A p \in SeqProcs :
        ( /\ Returned(p)
          /\ ObservedIdle(frame[p])
          /\ StoredBefore(p) + 1 < frame[p].idle_threshold )
        => /\ result[p] = [status |-> "idle-but-not-stopping",
                           idle_count |-> StoredBefore(p) + 1]
           /\ frame[p].instance_id \in DOMAIN table
           /\ table[frame[p].instance_id].IdleCount = StoredBefore(p) + 1
           /\ trace[p].stops = 0

C5_Witness ==
    \E p \in SeqProcs :
        /\ Returned(p)
        /\ StoredBefore(p) = 1
        /\ frame[p].idle_threshold = 3
        /\ result[p] = [status |-> "idle-but-not-stopping", idle_count |-> 2]

\* C6: for every instance state other than "running" the invocation returns
\* 'skipped-<state>', the stored count is 0 afterwards whatever it was, and
\* stop_instance is not called.
C6_SkipsWhenNotRunning ==
    \A p \in SeqProcs :
        (Returned(p) /\ frame[p].state # "running")
        => /\ result[p] = [status |-> "skipped-" \o frame[p].state]
           /\ frame[p].state = "stopped" => result[p].status = "skipped-stopped"
           /\ frame[p].state = "pending" => result[p].status = "skipped-pending"
           /\ Stored(p) = 0
           /\ trace[p].stops = 0

C6_Witness ==
    \E p \in SeqProcs :
        /\ Returned(p)
        /\ frame[p].state = "pending"
        /\ StoredBefore(p) = 3
        /\ Stored(p) = 0

\* C7: running with the probe reporting has_connections and count n: the
\* invocation returns 'active' with connection_count = n, the stored count is
\* 0 afterwards whatever it was, and stop_instance is not called.
C7_ActiveResets ==
    \A p \in SeqProcs :
        (Returned(p) /\ frame[p].state = "running" /\ frame[p].has_connections)
        => /\ result[p] = [status |-> "active",
                           connection_count |-> frame[p].connection_count]
           /\ frame[p].connection_count > 0
           /\ Stored(p) = 0
           /\ trace[p].stops = 0

C7_Witness ==
    \E p \in SeqProcs :
        /\ Returned(p)
        /\ result[p] = [status |-> "active", connection_count |-> 2]
        /\ StoredBefore(p) = 1
        /\ Stored(p) = 0

\* C8 as stated: when stop_instance raises, the error reaches the caller and
\* the stored idle count is left at the threshold.
C8_LeftAtThreshold ==
    \A p \in SeqProcs :
        trace[p].failed = "stop_instances"
        => /\ IsError(result[p])
           /\ Stored(p) = frame[p].idle_threshold

\* C8 as amended: when stop_instance raises, the error reaches the caller and
\* the invocation writes nothing: the table keeps the count c it held, with
\* c+1 >= idle_threshold (the count c+1 that reached the threshold is never
\* stored); and the next invocation, once it has observed the instance
\* running without connections and read the count, calls stop_instance again.
C8_StopFailureKeepsCount ==
    \A p \in SeqProcs :
        /\ trace[p].failed = "stop_instances"
           => /\ pc[p] = "done"
              /\ result[p] = Raised("ClientError", "stop_instances")
              /\ trace[p].puts = <<>>
              /\ table = trace[p].table0
              /\ Stored(p) + 1 = frame[p].idle_count
              /\ Stored(p) + 1 >= frame[p].idle_threshold
        /\ (trace[p].retrying /\ frame[p].idle_count > 0)
           => /\ ObservedIdle(frame[p])
              /\ (pc[p] = "stop_instance" \/ trace[p].stops = 1)

C8_Witness ==
    \E p \in SeqProcs :
        /\ trace[p].retrying
        /\ trace[p].stops = 1
        /\ frame[p].idle_threshold = 3
        /\ Stored(p) = 2

\* C9: a probe whose remote command has not reached a successful end when
\* its record is read is never taken as 'no connections': the invocation
\* fails, so it returns no record, counts no idle observation, puts nothing
\* and does not call stop_instance.
C9_UnfinishedProbeFails ==
    \A p \in SeqProcs :
        trace[p].cmd_status \in CommandStatuses \ {"Success"}
        => /\ ~Returned(p)
           /\ frame[p].idle_count = 0
           /\ trace[p].puts = <<>>
           /\ pc[p] # "stop_instance"
           /\ trace[p].stops = 0

\* C10: when the instance-status probe or the connection probe raises, the
\* invocation fails with that error, the table is as it was before the
\* invocation (nothing was put), and stop_instance is not called.
C10_ProbeErrorChangesNothing ==
    \A p \in SeqProcs :
        trace[p].failed \in {"describe_instances", "send_command"}
        => /\ pc[p] = "done"
           /\ result[p] = Raised("ClientError", trace[p].failed)
           /\ trace[p].puts = <<>>
           /\ table = trace[p].table0
           /\ trace[p].stops = 0

C10_Witness ==
    \E p \in SeqProcs :
        /\ pc[p] = "done"
        /\ result[p] = Raised("ClientError", "send_command")
        /\ frame[p].state = "running"
        /\ Stored(p) = 2

\* C11: of two invocations in succession that each find the instance not
\* running or with connections, only the first can change the table: the
\* second reads a count of 0, puts nothing and leaves the count at 0.
C11_SecondResetWritesNothing ==
    \A p \in SeqProcs :
        (trace[p].after_reset /\ frame[p].site \in {"skipped", "active"})
        => /\ pc[p] # "reset_put"
           /\ trace[p].puts = <<>>
           /\ table = trace[p].table0
           /\ Stored(p) = 0

C11_Witness ==
    \E p \in SeqProcs :
        /\ trace[p].after_reset
        /\ Returned(p)
        /\ result[p] = [status |-> "active", connection_count |-> 1]
        /\ frame[p].instance_id \in DOMAIN table

\* C12: when INSTANCE_ID or STATE_TABLE is missing from the environment the
\* invocation ends in get_config's error before any probe, any read or write
\* of the table and any stop_instance call.
C12_MissingVariableAbortsFirst ==
    ("INSTANCE_ID" \notin DOMAIN env \/ "STATE_TABLE" \notin DOMAIN env)
    => \A p \in SeqProcs :
          /\ pc[p] \in {"idle", "done"}
          /\ pc[p] = "done" => (IsError(result[p]) /\ result[p].call = "get_config")
          /\ frame[p] = NoFrame
          /\ trace[p].cmd_status = "none"
          /\ trace[p].puts = <<>>
          /\ trace[p].stops = 0
          /\ table = trace[p].table0 \/ pc[p] = "idle"

C12_Witness ==
    \E p \in SeqProcs :
        /\ "STATE_TABLE" \notin DOMAIN env
        /\ "INSTANCE_ID" \in DOMAIN env
        /\ pc[p] = "done"
        /\ result[p] = Raised("KeyError", "get_config")
        /\ table # <<>>

\* C13: the threshold the comparison uses is always >= 1, and 3 when
\* IDLE_THRESHOLD is unset: a value of 0 or below never reaches the
\* comparison of idle_count with idle_threshold.
C13_ThresholdAtLeastOne ==
    \A p \in SeqProcs :
        frame[p].idle_count > 0
        => /\ frame[p].idle_threshold >= 1
           /\ "IDLE_THRESHOLD" \notin DOMAIN env
                  => frame[p].idle_threshold = DefaultIdleThreshold

\* C14: in the stopping branch stop_instance is called before the reset: the
\* reset of an at-threshold invocation with allow_stop is never begun, and
\* the table never written by it, before its stop_instance call returned.
C14_StopPrecedesReset ==
    \A p \in SeqProcs :
        /\ ( /\ ObservedIdle(frame[p])
             /\ frame[p].idle_count >= frame[p].idle_threshold
             /\ frame[p].idle_count > 0
             /\ frame[p].allow_stop
             /\ (pc[p] \in {"reset_get", "reset_put"} \/ trace[p].puts # <<>>) )
           => (trace[p].stops = 1 /\ trace[p].failed # "stop_instances")
        /\ pc[p] = "stop_instance" => (trace[p].puts = <<>> /\ table = trace[p].table0)

C14_Witness ==
    \E p \in SeqProcs :
        /\ pc[p] = "reset_put"
        /\ frame[p].site = "stopped"
        /\ trace[p].stops = 1
        /\ Stored(p) = 2

\* C15: check_ssh_connections is called only after get_instance_state
\* returned exactly "running"; for any other state the invocation ends
\* without the remote command.
C15_ProbeOnlyWhenRunning ==
    \A p \in SeqProcs :
        /\ ( \/ pc[p] = "check_ssh_connections"
             \/ trace[p].cmd_status # "none"
             \/ trace[p].failed = "send_command" )
           => frame[p].state = "running"
        /\ frame[p].state \notin {"running", "none"}
           => /\ pc[p] \in {"reset_get", "reset_put", "done"}
              /\ trace[p].cmd_status = "none"
              /\ frame[p].connection_count = 0

C15_Witness ==
    \E p \in SeqProcs :
        /\ Returned(p)
        /\ frame[p].state = "stopping"
        /\ trace[p].cmd_status = "none"
        /\ trace[p].puts = <<0>>

\* C16: with idle_threshold = 1 an idle observation over a count of 0 (or no
\* record) takes the at-threshold branch: 'stopped' with allow_stop,
\* 'stop-suppressed' without, idle_count = 1; and 'idle-but-not-stopping' is
\* never returned.
C16_ThresholdOne ==
    \A p \in SeqProcs :
        (frame[p].idle_threshold = 1 /\ Returned(p))
        => /\ result[p].status # "idle-but-not-stopping"
           /\ (ObservedIdle(frame[p]) /\ StoredBefore(p) = 0)
              => result[p] =
                    [status |-> IF frame[p].allow_stop THEN "stopped"
                                ELSE "stop-suppressed",
                     idle_count |-> 1]

C16_Witness ==
    \E p \in SeqProcs :
        /\ frame[p].idle_threshold = 1
        /\ Returned(p)
        /\ frame[p].instance_id \notin DOMAIN trace[p].table0
        /\ result[p] = [status |-> "stopped", idle_count |-> 1]

\* C19: an invocation puts at most one item and calls stop_instance at most
\* once, and an invocation that puts a nonzero count does not call
\* stop_instance.
C19_OneWriteOneStop ==
    \A p \in SeqProcs :
        /\ Len(trace[p].puts) <= 1
        /\ trace[p].stops <= 1
        /\ (trace[p].puts # <<>> /\ trace[p].puts[1] # 0)
           => (trace[p].stops = 0 /\ pc[p] = "done")

C19_Witness ==
    \E p \in SeqProcs :
        /\ Returned(p)
        /\ trace[p].puts = <<0>>
        /\ trace[p].stops = 1

\* The count the table holds for the configured instance.
StoredCount == get_idle_count(get_config(env).instance_id, table)

\* C17: overlapping invocations, last write wins. Two idle invocations that
\* both computed c+1 from the same stored c leave c+1, not c+2; and where an
\* idle invocation that computed c+1 overlaps one that reset the count, the
\* table holds the value of whichever wrote last, 0 or c+1, so the reset can
\* be overwritten (C17_Witness).
C17_LastWriteWins ==
    \A p \in Procs : \A q \in Procs \ {p} :
        ( /\ Returned(p)
          /\ Returned(q)
          /\ result[p].status = "idle-but-not-stopping" )
        => /\ ( /\ result[q].status = "idle-but-not-stopping"
                /\ frame[q].idle_count = frame[p].idle_count )
              => StoredCount = frame[p].idle_count
           /\ trace[q].puts = <<0>>
              => StoredCount \in {0, frame[p].idle_count}

\* The reset of an active or not-running invocation is overwritten by the
\* c+1 of an idle invocation that read c before the reset.
C17_Witness ==
    \E p \in Procs : \E q \in Procs \ {p} :
        /\ Returned(p)
        /\ Returned(q)
        /\ result[p].status = "idle-but-not-stopping"
        /\ frame[p].idle_count >= 2
        /\ frame[q].site \in {"skipped", "active"}
        /\ trace[q].puts = <<0>>
        /\ StoredCount = frame[p].idle_count

\* One of two increments is lost: both invocations read c and both put c+1.
LostIncrement ==
    \E p \in Procs : \E q \in Procs \ {p} :
        /\ Returned(p)
        /\ Returned(q)
        /\ result[p] = [status |-> "idle-but-not-stopping", idle_count |-> 2]
        /\ result[q] = result[p]
        /\ StoredBefore(p) = 1
        /\ StoredBefore(q) = 1
        /\ StoredCount = 2

\* C18: with a constant idle_threshold t >= 1 and a table that starts in
\* [0, t), under any interleaving of overlapping invocations every count
\* put is in [0, t) and so is the stored count in every state.
C18_WritesInRange ==
    LET t == get_config(env).idle_threshold
    IN  /\ 0 <= StoredCount
        /\ StoredCount < t
        /\ \A p \in Procs : \A i \in DOMAIN trace[p].puts :
               0 <= trace[p].puts[i] /\ trace[p].puts[i] < t

\* Two invocations that began on the same table have both written, and the
\* table holds the largest count the threshold admits.
C18_Witness ==
    \E p \in Procs : \E q \in Procs \ {p} :
        /\ trace[p].table0 = trace[q].table0
        /\ trace[p].puts # <<>>
        /\ trace[q].puts # <<>>
        /\ frame[p].idle_threshold >= 2
        /\ StoredCount = frame[p].idle_threshold - 1

\* The invocation in slot p has called stop_instance.
StopIssued(p) == trace[p].stops > 0

\* C20: while invocations keep being triggered one after the other, no
\* external call raises, allow_stop is true and the instance stays running
\* without connections, a stop is issued again and again, each time by the
\* idle_threshold-th invocation at the latest since the start or the last
\* stop, from any starting count in [0, idle_threshold).
C20_EventuallyStops ==
    /\ [](\A p \in SeqProcs :
             /\ trace[p].since_stop <= get_config(env).idle_threshold
             /\ (trace[p].since_stop = get_config(env).idle_threshold /\ pc[p] = "done")
                => StopIssued(p))
    /\ []<>(\E p \in SeqProcs : StopIssued(p))

\* The stop comes with the idle_threshold-th invocation and no sooner.
C20_Witness ==
    \E p \in SeqProcs :
        /\ frame[p].idle_threshold >= 2
        /\ trace[p].since_stop = frame[p].idle_threshold
        /\ Returned(p)
        /\ result[p].status = "stopped"
        /\ trace[p].stops = 1

====
